---------------------------- MODULE Spec2Model ----------------------------
(***************************************************************************)
(* Model of the Durable Object test helpers of vitest-pool-workers         *)
(* (src/packages/vitest-pool-workers/src/worker/durable-objects.ts):       *)
(* the action dispatcher runInDurableObject / runDurableObjectAlarm, the   *)
(* process-wide actionResults table, the same-isolate check, the           *)
(* DurableObjectWrapper that sits in front of user classes, and            *)
(* listDurableObjectIds.                                                   *)
(*                                                                         *)
(* Strings that the code builds or converts are sequences of tokens, so    *)
(* that a template literal is a concatenation and encodeURIComponent is a  *)
(* real conversion.  JavaScript values are records [tag, name, status].    *)
(***************************************************************************)
EXTENDS Integers, Sequences, FiniteSets, TLC

(***************************************************************************)
(* Bounds of the model.                                                    *)
(***************************************************************************)
MaxCalls == 2       \* invocations of the public helpers by the test driver
MaxForwarded == 1   \* untagged lifecycle calls the host delivers to wrappers
MaxReloads == 1     \* times the main module is invalidated and re-imported

Calls == 1..MaxCalls
Forwarded == (MaxCalls + 1)..(MaxCalls + MaxForwarded)
Requests == Calls \cup Forwarded

(***************************************************************************)
(* JavaScript values.                                                      *)
(***************************************************************************)
Val(tag, name, status) == [tag |-> tag, name |-> name, status |-> status]
Undefined == Val("undefined", "", 0)
Str(s) == Val("string", s, 0)
Bool(b) == Val("boolean", IF b THEN "true" ELSE "false", 0)
Fn(name) == Val("function", name, 0)
Err(msg) == Val("Error", msg, 0)
TypeErr(msg) == Val("TypeError", msg, 0)
AssertionErr(msg) == Val("AssertionError", msg, 0)
Resp(status, body) == Val("Response", body, status)

\* const kUseResponse = Symbol("kUseResponse")
kUseResponse == Val("symbol", "kUseResponse", 0)

\* typeof v === "function"
IsFunction(v) == v.tag = "function"
\* v instanceof Response
IsResponse(v) == v.tag = "Response"
\* Response#ok: the status is in the range 200-299
ResponseOk(r) == r.status >= 200 /\ r.status <= 299

(***************************************************************************)
(* Objects handed to the public helpers: what the duck-typed shape checks  *)
(* look at (typeof, null, constructor name, callable members, typeof id)   *)
(* and what the object refers to (an actor for a stub, a binding for a     *)
(* namespace).                                                             *)
(***************************************************************************)
Obj(typeof, isNull, ctor, fns, idType, ref) ==
    [typeof |-> typeof, isNull |-> isNull, ctor |-> ctor, fns |-> fns,
     idType |-> idType, ref |-> ref]

NamespaceFns == {"newUniqueId", "idFromName", "idFromString", "get"}
Stub(ctor, actor) == Obj("object", FALSE, ctor, {"fetch"}, "object", actor)
Namespace(binding) ==
    Obj("object", FALSE, "DurableObjectNamespace", NamespaceFns, "undefined", binding)
NullValue == Obj("object", TRUE, "", {}, "undefined", "")
StringValue == Obj("string", FALSE, "String", {}, "undefined", "")
\* a service binding: callable fetch, but neither the constructor name nor an id
ServiceBinding == Obj("object", FALSE, "Fetcher", {"fetch"}, "undefined", "")
\* an object named like a stub whose fetch member is missing
BrokenStub == Obj("object", FALSE, "DurableObject", {}, "object", "")

isDurableObjectNamespace(v) ==
    /\ v.typeof = "object"
    /\ ~v.isNull
    /\ v.ctor = "DurableObjectNamespace"
    /\ NamespaceFns \subseteq v.fns

isDurableObjectStub_NoMemberCheck(v) ==
    /\ v.typeof = "object"
    /\ ~v.isNull
    /\ v.ctor \in {"DurableObject", "WorkerRpc"}

isDurableObjectStub(v) ==
    /\ v.typeof = "object"
    /\ ~v.isNull
    /\ v.ctor \in {"DurableObject", "WorkerRpc"}
    /\ "fetch" \in v.fns
    /\ v.idType = "object"

(***************************************************************************)
(* Configuration: the serialized options' durableObjectBindingDesignators  *)
(* (an ordered map from bound name to designator) and the internal env.    *)
(***************************************************************************)
Designator(className, hasScriptName, scriptName, hasKey, key) ==
    [className |-> className, hasScriptName |-> hasScriptName,
     scriptName |-> scriptName, hasKey |-> hasKey, unsafeUniqueKey |-> key]
Entry(key, designator) == [key |-> key, designator |-> designator]

\* internalEnv.__VITEST_POOL_WORKERS_SELF_NAME
SelfName == <<"self">>

\* the configuration the dispatch protocol is checked under: two classes of
\* this worker and, between them in iteration order, one of another worker
MainEntries ==
    << Entry("COUNTER", Designator(<<"Counter">>, FALSE, <<>>, FALSE, <<>>)),
       Entry("REMOTE", Designator(<<"Counter">>, TRUE, <<"other">>, FALSE, <<>>)),
       Entry("BARE", Designator(<<"Bare">>, FALSE, <<>>, FALSE, <<>>)) >>
MainOptions == [defined |-> TRUE, entries |-> MainEntries]

(***************************************************************************)
(* Actor identities.  An identity string is opaque to the code; what       *)
(* matters is which group minted it: a namespace re-derives (idFromString) *)
(* only the strings minted under its own unique key.                       *)
(***************************************************************************)
NoDesignator == Designator(<<>>, FALSE, <<>>, FALSE, <<>>)

\* options.durableObjectBindingDesignators?.get(boundName)
DesignatorOf(opts, boundName) ==
    IF opts.defined /\ \E i \in 1..Len(opts.entries) : opts.entries[i].key = boundName
    THEN LET i == CHOOSE j \in 1..Len(opts.entries) : opts.entries[j].key = boundName
         IN  opts.entries[i].designator
    ELSE NoDesignator

\* the unique key the runtime mints a binding's identities under
NamespaceKey(d) ==
    IF d.hasKey THEN d.unsafeUniqueKey
    ELSE (IF d.hasScriptName THEN d.scriptName ELSE SelfName) \o <<"-">> \o d.className

IdString(key, hex) == [key |-> key, hex |-> hex]
DurableObjectId(str) == [str |-> str]
\* DurableObjectId#toString()
IdToString(id) == id.str

\* namespace.idFromString(idString) does not throw
IdFromStringAccepts(opts, namespace, idString) ==
    /\ DesignatorOf(opts, namespace.ref) # NoDesignator
    /\ idString.key = NamespaceKey(DesignatorOf(opts, namespace.ref))

\* the actors of the model and the binding each was obtained from
LocalActors == {"a1", "b1"}
RemoteActors == {"r1"}
Actors == LocalActors \cup RemoteActors
ActorBinding(actor) ==
    CASE actor = "a1" -> "COUNTER"
      [] actor = "b1" -> "BARE"
      [] actor = "r1" -> "REMOTE"
      [] OTHER -> ""

\* stub.id
StubId(opts, stub) ==
    DurableObjectId(IdString(NamespaceKey(DesignatorOf(opts, ActorBinding(stub.ref))),
                             stub.ref))

(***************************************************************************)
(* Same-isolate check.                                                     *)
(***************************************************************************)
RECURSIVE SameIsolateLoop(_, _)
\* the for loop of getSameIsolateNamespaces over the designator entries
SameIsolateLoop(entries, acc) ==
    IF entries = <<>> THEN acc
    ELSE LET e == Head(entries)
         IN  IF e.designator.hasScriptName
             THEN SameIsolateLoop(Tail(entries), acc)
             ELSE SameIsolateLoop(Tail(entries), Append(acc, Namespace(e.key)))

NoCache == [defined |-> FALSE, list |-> <<>>]

getSameIsolateNamespaces_NoScriptNameCheck(cache, opts) ==
    IF cache.defined THEN cache
    ELSE IF ~opts.defined THEN [defined |-> TRUE, list |-> <<>>]
    ELSE [defined |-> TRUE,
          list |-> [i \in 1..Len(opts.entries) |-> Namespace(opts.entries[i].key)]]

\* the value of sameIsolatedNamespaces after the call (which is also what the
\* call returns)
getSameIsolateNamespaces(cache, opts) ==
    IF cache.defined THEN cache
    ELSE IF ~opts.defined THEN [defined |-> TRUE, list |-> <<>>]
    ELSE [defined |-> TRUE, list |-> SameIsolateLoop(opts.entries, <<>>)]

SameIsolateError ==
    Err("Durable Object test helpers can only be used with stubs pointing to objects defined within the same worker.")

\* assertSameIsolate(stub) returns normally, given the namespaces it got
assertSameIsolate(opts, namespaces, stub) ==
    LET idString == IdToString(StubId(opts, stub))
    IN  \E i \in 1..Len(namespaces) : IdFromStringAccepts(opts, namespaces[i], idString)

(***************************************************************************)
(* State.                                                                  *)
(***************************************************************************)
VARIABLES
    nextActionId,            \* let nextActionId = 0
    actionResults,           \* const actionResults = new Map<number, unknown>()
    sameIsolatedNamespaces,  \* the cache of getSameIsolateNamespaces
    options,                 \* getSerializedOptions()
    call,                    \* the test driver's calls of the public helpers
    req,                     \* the calls the host delivers to wrappers
    wrapper,                 \* per actor: its wrapper's instanceConstructor, instance
    alarm,                   \* per actor: state.storage's scheduled alarm
    moduleVersion,           \* which evaluation of the main module is current
    listing,                 \* the listDurableObjectIds call
    allowUnauthorizedDispatchers,  \* miniflare fetch.ts: new WeakSet<Dispatcher>()
    registered,              \* the dispatchers registerAllowUnauthorizedDispatcher was given
    lastFetch,               \* miniflare's fetch: its last call and what it did
    opened                   \* the WebSocket connections miniflare's fetch has opened

\* the state of miniflare's fetch module
fetchVars == <<allowUnauthorizedDispatchers, registered, lastFetch, opened>>

vars == <<nextActionId, actionResults, sameIsolatedNamespaces, options, call, req,
          wrapper, alarm, moduleVersion, listing, fetchVars>>

\* Map helpers over functions with a finite domain
EmptyMap == [k \in {} |-> Undefined]
MapHas(m, k) == k \in DOMAIN m
MapGet(m, k) == IF k \in DOMAIN m THEN m[k] ELSE Undefined
MapSet(m, k, v) == [x \in (DOMAIN m) \cup {k} |-> IF x = k THEN v ELSE m[x]]
MapDelete(m, k) == [x \in (DOMAIN m) \ {k} |-> m[x]]

\* how a call, a callback or a hook ended
Outcome(kind, val) == [kind |-> kind, val |-> val]
NoOutcome == Outcome("none", Undefined)

NoAlarm == 0   \* getAlarm() === null; scheduled times are positive

\* a call of a public helper
Call(pc, api, stub, callback, id, read, outcome) ==
    [pc |-> pc, api |-> api, stub |-> stub, callback |-> callback, id |-> id,
     read |-> read, outcome |-> outcome]
IdleCall == Call("idle", "", NullValue, Undefined, -1, NoOutcome, NoOutcome)

\* a call delivered to a wrapper.  tagged/actionId are request.cf's action
\* key; executed, produced, hooks and sawAlarm record what ran on its behalf
NoRequest ==
    [pc |-> "none", kind |-> "", actor |-> "", tagged |-> FALSE, actionId |-> -1,
     result |-> NoOutcome, executed |-> Undefined, produced |-> NoOutcome,
     hooks |-> 0, sawAlarm |-> NoAlarm, cleared |-> FALSE]

\* const id = nextActionId++ : the counter afterwards
NextActionIdStuck(n) == n
NextActionId(n) == n + 1

\* the request of stub.fetch("http://x", { cf: { [CF_KEY_ACTION]: id } })
TaggedRequest(actor, id) ==
    [NoRequest EXCEPT !.pc = "import", !.kind = "fetch", !.actor = actor,
                      !.tagged = TRUE, !.actionId = id]

NoError == Val("none", "", 0)

runInDurableObjectArgError_CallbackUnchecked(stub, callback) ==
    IF ~isDurableObjectStub(stub)
    THEN TypeErr("Failed to execute 'runInDurableObject': parameter 1 is not of type 'DurableObjectStub'.")
    ELSE NoError

\* lines 96-105: the type error of runInDurableObject's parameter checks
runInDurableObjectArgError(stub, callback) ==
    IF ~isDurableObjectStub(stub)
    THEN TypeErr("Failed to execute 'runInDurableObject': parameter 1 is not of type 'DurableObjectStub'.")
    ELSE IF ~IsFunction(callback)
    THEN TypeErr("Failed to execute 'runInDurableObject': parameter 2 is not of type 'function'.")
    ELSE NoError

\* lines 138-142
runDurableObjectAlarmArgError(stub) ==
    IF ~isDurableObjectStub(stub)
    THEN TypeErr("Failed to execute 'runDurableObjectAlarm': parameter 1 is not of type 'DurableObjectStub'.")
    ELSE NoError

DispatcherResult_OkFirst(result, response) ==
    IF ResponseOk(response)
    THEN (IF result = kUseResponse THEN Outcome("resolved", response)
          ELSE Outcome("resolved", result))
    ELSE Outcome("rejected", result)

DispatcherResult_AlwaysReturn(result, response) ==
    IF result = kUseResponse THEN Outcome("resolved", response)
    ELSE Outcome("resolved", result)

\* lines 118-124: what runInDurableObject does with the entry and the response
DispatcherResult(result, response) ==
    IF result = kUseResponse THEN Outcome("resolved", response)
    ELSE IF ResponseOk(response) THEN Outcome("resolved", result)
    ELSE Outcome("rejected", result)

\* lines 96-113 of runInDurableObject, up to the await of stub.fetch()
RunInDurableObjectStart(c, api, stub, callback) ==
    LET argError == runInDurableObjectArgError(stub, callback)
        cache == getSameIsolateNamespaces(sameIsolatedNamespaces, options)
        id == nextActionId
    IN  IF argError # NoError
        THEN /\ call' = [call EXCEPT ![c] =
                    Call("done", api, stub, callback, -1, NoOutcome,
                         Outcome("rejected", argError))]
             /\ UNCHANGED <<nextActionId, actionResults, sameIsolatedNamespaces, req>>
        ELSE /\ sameIsolatedNamespaces' = cache
             /\ IF ~assertSameIsolate(options, cache.list, stub)
                THEN /\ call' = [call EXCEPT ![c] =
                            Call("done", api, stub, callback, -1, NoOutcome,
                                 Outcome("rejected", SameIsolateError))]
                     /\ UNCHANGED <<nextActionId, actionResults, req>>
                ELSE /\ nextActionId' = NextActionId(nextActionId)
                     /\ actionResults' = MapSet(actionResults, id, callback)
                     /\ req' = [req EXCEPT ![c] = TaggedRequest(stub.ref, id)]
                     /\ call' = [call EXCEPT ![c] =
                            Call("awaiting", api, stub, callback, id, NoOutcome,
                                 NoOutcome)]

(***************************************************************************)
(* User code: the main module's exports, the classes' hooks, and the       *)
(* callbacks the test driver passes.                                       *)
(***************************************************************************)
NoCtor == [class |-> <<>>, version |-> 0]
NoInstance == [exists |-> FALSE, ctor |-> NoCtor]

\* mainModule[className] after importModule(): every evaluation of the module
\* makes new constructors; the first exports Counter and Bare, later ones
\* (the file was edited) only Counter
ModuleExport(version, className) ==
    IF className = <<"Counter">> \/ (className = <<"Bare">> /\ version = 1)
    THEN [isFunction |-> TRUE, ctor |-> [class |-> className, version |-> version]]
    ELSE [isFunction |-> FALSE, ctor |-> NoCtor]

LifecycleHooks == {"fetch", "alarm", "webSocketMessage", "webSocketClose", "webSocketError"}

\* the hooks an instance defines: Counter all of them, Bare none
InstanceHooks(instance) ==
    IF instance.ctor.class = <<"Counter">> THEN LifecycleHooks ELSE {}

\* what a class's constructor may do when run: complete, or (Bare's reads a
\* configuration that may be missing) throw
ConstructorBehaviours(ctor) ==
    IF ctor.class = <<"Bare">> THEN {"ok", "throw"} ELSE {"ok"}
ConstructorError == Err("constructor failed")

\* what a class's alarm() may do when run: return, schedule the next alarm
\* and return, or throw
AlarmHookBehaviours == {"ok", "reschedule", "throw"}
AlarmHookError == Err("alarm failed")

\* what Counter's fetch() answers
UserFetchResponse == Resp(200, "user")

runAlarm == Fn("runAlarm")
UserCallbacks ==
    {Fn("retStr"), Fn("retUndef"), Fn("throwErr"), Fn("resp200"), Fn("resp500"),
     Fn("setAlarm")}
NotCallable == {Str("not a function")}

\* what a user callback does when run: its outcome
CallbackOutcome(callback) ==
    CASE callback.name = "retStr" -> Outcome("return", Str("v"))
      [] callback.name = "retUndef" -> Outcome("return", Undefined)
      [] callback.name = "throwErr" -> Outcome("throw", Err("boom"))
      [] callback.name = "resp200" -> Outcome("return", Resp(200, "ok"))
      [] callback.name = "resp500" -> Outcome("return", Resp(500, "down"))
      [] callback.name = "setAlarm" -> Outcome("return", Undefined)
      [] OTHER -> Outcome("return", Undefined)

\* ... and the alarm it leaves scheduled (state.storage.setAlarm)
CallbackAlarm(callback, current) ==
    IF callback.name = "setAlarm" THEN 1 ELSE current

(***************************************************************************)
(* DurableObjectWrapper.                                                   *)
(***************************************************************************)
\* new DurableObjectWrapper(state, env, className).  built counts the user
\* constructor's runs; drained tells whether the blockConcurrencyWhile()
\* work of the user's constructor has completed
FreshWrapper ==
    [instanceConstructor |-> NoCtor, instance |-> NoInstance, built |-> 0,
     drained |-> FALSE]

\* createDurableObjectWrapper(className): the class name of an actor's wrapper
WrapperClassName(actor) == DesignatorOf(options, ActorBinding(actor)).className

\* the errors of ensureInstance (mainPath and className left out of the text)
NotExportedError == Err("does not export a Durable Object")
InvalidatedError ==
    Err("changed, invalidating this Durable Object. Please retry the DurableObjectStub#fetch() call.")

Fail(r, error) ==
    [req[r] EXCEPT !.pc = "failed", !.result = Outcome("throw", error)]

WrapperAck_No204(produced) ==
    IF produced.kind = "return" /\ IsResponse(produced.val)
    THEN [entry |-> kUseResponse, response |-> produced.val]
    ELSE [entry |-> produced.val, response |-> Resp(500, "")]

WrapperAck_StoreResponse(produced) ==
    IF produced.kind = "return" /\ IsResponse(produced.val)
    THEN [entry |-> produced.val, response |-> produced.val]
    ELSE IF produced.kind = "return"
    THEN [entry |-> produced.val, response |-> Resp(204, "")]
    ELSE [entry |-> produced.val, response |-> Resp(500, "")]

\* lines 213-230: the entry the wrapper stores and the response it returns for
\* what the callback produced
WrapperAck(produced) ==
    IF produced.kind = "return" /\ IsResponse(produced.val)
    THEN [entry |-> kUseResponse, response |-> produced.val]
    ELSE IF produced.kind = "return"
    THEN [entry |-> produced.val, response |-> Resp(204, "")]
    ELSE [entry |-> produced.val, response |-> Resp(500, "")]

Acknowledge_NoStore(r, executed, outcome, hooks) ==
    LET ack == WrapperAck(outcome)
    IN  /\ actionResults' = actionResults
        /\ req' = [req EXCEPT ![r].pc = "responded",
                              ![r].result = Outcome("return", ack.response),
                              ![r].executed = executed,
                              ![r].produced =
                                  IF executed = Undefined THEN NoOutcome ELSE outcome,
                              ![r].hooks = hooks]

Acknowledge_Deletes(r, executed, outcome, hooks) ==
    LET ack == WrapperAck(outcome)
    IN  /\ actionResults' = MapDelete(actionResults, req[r].actionId)
        /\ req' = [req EXCEPT ![r].pc = "responded",
                              ![r].result = Outcome("return", ack.response),
                              ![r].executed = executed,
                              ![r].produced =
                                  IF executed = Undefined THEN NoOutcome ELSE outcome,
                              ![r].hooks = hooks]

\* the end of the tagged branch of fetch(): store the entry, return the
\* response.  executed is the callback that ran (Undefined when none did)
Acknowledge(r, executed, outcome, hooks) ==
    LET ack == WrapperAck(outcome)
    IN  /\ actionResults' = MapSet(actionResults, req[r].actionId, ack.entry)
        /\ req' = [req EXCEPT ![r].pc = "responded",
                              ![r].result = Outcome("return", ack.response),
                              ![r].executed = executed,
                              ![r].produced =
                                  IF executed = Undefined THEN NoOutcome ELSE outcome,
                              ![r].hooks = hooks]

\* lines 205-213 of fetch(): a tagged request, from the return of
\* ensureInstance() to the end of a user callback or to runAlarm's first await
HandleAction(r) ==
    LET a == req[r].actor
        actionId == req[r].actionId
        callback == MapGet(actionResults, actionId)
    IN  /\ IF ~IsFunction(callback)
           THEN \* the assert throws inside the try block
                /\ Acknowledge(r, Undefined,
                       Outcome("throw", AssertionErr("Expected callback for action")), 0)
                /\ UNCHANGED alarm
           ELSE IF callback = runAlarm
           THEN \* const alarm = await state.storage.getAlarm()
                /\ req' = [req EXCEPT ![r].pc = "gotAlarm",
                                      ![r].executed = callback,
                                      ![r].sawAlarm = alarm[a]]
                /\ UNCHANGED <<actionResults, alarm>>
           ELSE /\ Acknowledge(r, callback, CallbackOutcome(callback), 0)
                /\ alarm' = [alarm EXCEPT ![a] = CallbackAlarm(callback, alarm[a])]

runAlarmReturnsEarly_Never(alarmRead) == FALSE
\* line 129: if (alarm === null) return false
runAlarmReturnsEarly(alarmRead) == alarmRead = NoAlarm

AfterDeleteAlarm_Kept(current) == current
\* line 130: state.storage.deleteAlarm()
AfterDeleteAlarm(current) == NoAlarm

runAlarmCallsHook_Always(hooks) == TRUE
\* line 131: instance.alarm?.() calls the hook
runAlarmCallsHook(hooks) == "alarm" \in hooks

\* lines 128-130 of runAlarm, from the resumption after getAlarm()
RunAlarmAfterGet(r) ==
    LET a == req[r].actor
    IN  /\ req[r].pc = "gotAlarm"
        /\ IF runAlarmReturnsEarly(req[r].sawAlarm)
           THEN /\ Acknowledge(r, runAlarm, Outcome("return", Bool(FALSE)), 0)
                /\ UNCHANGED alarm
           ELSE /\ alarm' = [alarm EXCEPT ![a] = AfterDeleteAlarm(alarm[a])]
                /\ req' = [req EXCEPT ![r].pc = "deleted", ![r].cleared = TRUE]
                /\ UNCHANGED actionResults
        /\ UNCHANGED <<nextActionId, sameIsolatedNamespaces, options, call, wrapper,
                       moduleVersion, listing, fetchVars>>

\* lines 131-132 of runAlarm, from the resumption after deleteAlarm()
RunAlarmAfterDelete(r) ==
    LET a == req[r].actor
    IN  /\ req[r].pc = "deleted"
        /\ IF ~runAlarmCallsHook(InstanceHooks(wrapper[a].instance))
           THEN /\ Acknowledge(r, runAlarm, Outcome("return", Bool(TRUE)), 0)
                /\ UNCHANGED alarm
           ELSE \E b \in AlarmHookBehaviours :
                /\ Acknowledge(r, runAlarm,
                       IF b = "throw" THEN Outcome("throw", AlarmHookError)
                       ELSE Outcome("return", Bool(TRUE)), 1)
                /\ alarm' = [alarm EXCEPT ![a] = IF b = "reschedule" THEN 1 ELSE @]
        /\ UNCHANGED <<nextActionId, sameIsolatedNamespaces, options, call, wrapper,
                       moduleVersion, listing, fetchVars>>

MissingHook_Silent(kind) == Outcome("return", Undefined)
MissingHook_Throws(kind) == Outcome("throw", Err("Handler does not export a function."))

\* lines 234-236 and the ?.() of lines 242-254: what a forwarded call ends in
\* when the instance does not define its hook
MissingHook(kind) ==
    IF kind = "fetch"
    THEN Outcome("throw", Err("Handler does not export a fetch() function."))
    ELSE Outcome("return", Undefined)

\* lines 233-254: an untagged call, from the return of ensureInstance()
HandleForwarded(r) ==
    LET a == req[r].actor
        kind == req[r].kind
    IN  /\ actionResults' = actionResults
        /\ IF kind \notin InstanceHooks(wrapper[a].instance)
           THEN /\ req' = [req EXCEPT ![r].pc =
                              IF MissingHook(kind).kind = "throw" THEN "failed"
                              ELSE "responded",
                                      ![r].result = MissingHook(kind)]
                /\ UNCHANGED alarm
           ELSE IF kind = "fetch"
           THEN /\ req' = [req EXCEPT ![r].pc = "responded", ![r].hooks = 1,
                                      ![r].result = Outcome("return", UserFetchResponse)]
                /\ UNCHANGED alarm
           ELSE IF kind = "alarm"
           THEN \E b \in AlarmHookBehaviours :
                /\ req' = [req EXCEPT ![r].pc = IF b = "throw" THEN "failed" ELSE "responded",
                                      ![r].hooks = 1,
                                      ![r].result =
                                          IF b = "throw" THEN Outcome("throw", AlarmHookError)
                                          ELSE Outcome("return", Undefined)]
                /\ alarm' = [alarm EXCEPT ![a] = IF b = "reschedule" THEN 1 ELSE @]
           ELSE /\ req' = [req EXCEPT ![r].pc = "responded", ![r].hooks = 1,
                                      ![r].result = Outcome("return", Undefined)]
                /\ UNCHANGED alarm

Dispatch_TagIgnored(r) == HandleForwarded(r)

\* fetch() and the other hooks of the wrapper after `await this.ensureInstance()`:
\* the resumption is a microtask of the one that made ensureInstance() return
Dispatch(r) ==
    IF req[r].kind = "fetch" /\ req[r].tagged THEN HandleAction(r) ELSE HandleForwarded(r)


Invalidated_Never(recorded, constructor) == FALSE
\* line 177: this.instanceConstructor !== constructor
Invalidated(recorded, constructor) == recorded # constructor

NeedsConstruction_Always(instance) == TRUE
\* line 192: this.instance === undefined
NeedsConstruction(instance) == ~instance.exists

\* importModule(): the main module as evaluated last, or, when its source has
\* changed since, a new evaluation of it
ImportModule == {moduleVersion} \cup {v \in {moduleVersion + 1} : moduleVersion <= MaxReloads}

\* ensureInstance() from the resumption after `await importModule()` to its
\* throw, to its await of blockConcurrencyWhile(), or through its return into
\* the hook that awaited it
EnsureInstance(r) ==
    /\ req[r].pc = "import"
    /\ \E version \in ImportModule :
        LET a == req[r].actor
            w == wrapper[a]
            exported == ModuleExport(version, WrapperClassName(a))
            \* this.instanceConstructor ??= constructor
            ic == IF w.instanceConstructor = NoCtor THEN exported.ctor
                  ELSE w.instanceConstructor
        IN  /\ moduleVersion' = version
            /\ IF ~exported.isFunction
               THEN /\ req' = [req EXCEPT ![r] = Fail(r, NotExportedError)]
                    /\ UNCHANGED <<wrapper, actionResults, alarm>>
               ELSE IF Invalidated(ic, exported.ctor)
               THEN /\ req' = [req EXCEPT ![r] = Fail(r, InvalidatedError)]
                    /\ wrapper' = [wrapper EXCEPT ![a].instanceConstructor = ic]
                    /\ UNCHANGED <<actionResults, alarm>>
               ELSE IF NeedsConstruction(w.instance)
               THEN \* new this.instanceConstructor(this.state, this.env)
                    \E b \in ConstructorBehaviours(ic) :
                        /\ IF b = "throw"
                           THEN /\ wrapper' = [wrapper EXCEPT ![a] =
                                      [instanceConstructor |-> ic,
                                       instance |-> NoInstance,
                                       built |-> w.built + 1, drained |-> FALSE]]
                                /\ req' = [req EXCEPT ![r] = Fail(r, ConstructorError)]
                           ELSE /\ wrapper' = [wrapper EXCEPT ![a] =
                                      [instanceConstructor |-> ic,
                                       instance |-> [exists |-> TRUE, ctor |-> ic],
                                       built |-> w.built + 1, drained |-> FALSE]]
                                /\ req' = [req EXCEPT ![r].pc = "drain"]
                        /\ UNCHANGED <<actionResults, alarm>>
               ELSE /\ wrapper' = [wrapper EXCEPT ![a].instanceConstructor = ic]
                    /\ Dispatch(r)
    /\ UNCHANGED <<nextActionId, sameIsolatedNamespaces, options, call, listing, fetchVars>>

\* the resumption after `await this.state.blockConcurrencyWhile(async () => {})`,
\* to the end of the hook's synchronous continuation
Drained(r) ==
    /\ req[r].pc = "drain"
    /\ wrapper' = [wrapper EXCEPT ![req[r].actor].drained = TRUE]
    /\ Dispatch(r)
    /\ UNCHANGED <<nextActionId, sameIsolatedNamespaces, options, call, moduleVersion,
                   listing, fetchVars>>

(***************************************************************************)
(* The test driver and the host.                                           *)
(***************************************************************************)
LocalStubs == {Stub("DurableObject", "a1"), Stub("WorkerRpc", "b1")}
RemoteStubs == {Stub("DurableObject", "r1")}
NotStubs == {NullValue, ServiceBinding, BrokenStub}

\* the (stub, callback) pairs the driver passes to runInDurableObject: every
\* callback with a Counter stub, a few with the other values
RunInputs ==
    ({Stub("DurableObject", "a1")} \X (UserCallbacks \cup NotCallable))
    \cup ({Stub("WorkerRpc", "b1")} \X {Fn("setAlarm")})
    \cup (RemoteStubs \X {Fn("retStr"), Fn("throwErr")})
    \cup (NotStubs \X {Fn("retStr")})
    \cup ({NullValue} \X NotCallable)

\* the stubs the driver passes to runDurableObjectAlarm
AlarmInputs == LocalStubs \cup RemoteStubs \cup {NullValue, ServiceBinding}

\* the driver starts its calls in order; they then run concurrently
MayStart(c) == call[c].pc = "idle" /\ (IF c = 1 THEN TRUE ELSE call[c - 1].pc # "idle")

\* runInDurableObject(stub, callback), up to its await
RunInDurableObject(c) ==
    /\ MayStart(c)
    /\ \E input \in RunInputs :
           RunInDurableObjectStart(c, "runInDurableObject", input[1], input[2])
    /\ UNCHANGED <<options, wrapper, alarm, moduleVersion, listing, fetchVars>>

\* runDurableObjectAlarm(stub), up to runInDurableObject's await
RunDurableObjectAlarm(c) ==
    /\ MayStart(c)
    /\ \E stub \in AlarmInputs :
           IF runDurableObjectAlarmArgError(stub) # NoError
           THEN /\ call' = [call EXCEPT ![c] =
                       Call("done", "runDurableObjectAlarm", stub, runAlarm, -1, NoOutcome,
                            Outcome("thrown", runDurableObjectAlarmArgError(stub)))]
                /\ UNCHANGED <<nextActionId, actionResults, sameIsolatedNamespaces, req>>
           ELSE RunInDurableObjectStart(c, "runDurableObjectAlarm", stub, runAlarm)
    /\ UNCHANGED <<options, wrapper, alarm, moduleVersion, listing, fetchVars>>

\* lines 114-124 of runInDurableObject: the resumption after `await stub.fetch()`
Resume(c) ==
    LET id == call[c].id
        result == MapGet(actionResults, id)
    IN  /\ call[c].pc = "awaiting"
        /\ req[c].pc \in {"responded", "failed"}
        /\ IF req[c].pc = "failed"
           THEN \* stub.fetch() rejected: the await throws
                /\ call' = [call EXCEPT ![c].pc = "done",
                                        ![c].outcome = Outcome("rejected", req[c].result.val)]
                /\ UNCHANGED actionResults
           ELSE IF ~MapHas(actionResults, id)
           THEN /\ call' = [call EXCEPT ![c].pc = "done",
                                        ![c].outcome = Outcome("rejected",
                                            AssertionErr("Expected action result"))]
                /\ UNCHANGED actionResults
           ELSE /\ actionResults' = MapDelete(actionResults, id)
                /\ call' = [call EXCEPT ![c].pc = "done",
                                        ![c].read = Outcome("read", result),
                                        ![c].outcome =
                                            DispatcherResult(result, req[c].result.val)]
        /\ UNCHANGED <<nextActionId, sameIsolatedNamespaces, options, req, wrapper,
                       alarm, moduleVersion, listing, fetchVars>>

\* the host delivers an untagged call to an actor's wrapper: a request, a
\* socket event, or the alarm that is due (which the host clears as it fires)
Forward(r) ==
    /\ r \in Forwarded
    /\ req[r].pc = "none"
    /\ \E a \in LocalActors, kind \in LifecycleHooks :
        /\ kind = "alarm" => alarm[a] # NoAlarm
        /\ alarm' = IF kind = "alarm" THEN [alarm EXCEPT ![a] = NoAlarm] ELSE alarm
        /\ req' = [req EXCEPT ![r] =
               [NoRequest EXCEPT !.pc = "import", !.kind = kind, !.actor = a]]
    /\ UNCHANGED <<nextActionId, actionResults, sameIsolatedNamespaces, options, call,
                   wrapper, moduleVersion, listing, fetchVars>>

\* the action ids a request made by other code of the worker may carry
ForgedIds == 0..1

\* code of the worker other than runInDurableObject calls stub.fetch() with
\* the action key in cf: a tagged request whose id the table may hold a
\* pending callback for, an outcome for, or nothing
Forge(r) ==
    /\ r \in Forwarded
    /\ req[r].pc = "none"
    /\ \E a \in LocalActors, id \in ForgedIds : req' = [req EXCEPT ![r] = TaggedRequest(a, id)]
    /\ UNCHANGED <<nextActionId, actionResults, sameIsolatedNamespaces, options, call,
                   wrapper, alarm, moduleVersion, listing, fetchVars>>

(***************************************************************************)
(* miniflare's fetch (src/packages/miniflare/src/http/fetch.ts): the set   *)
(* of dispatchers allowed to skip certificate verification, and the        *)
(* WebSocket upgrade branch of fetch().                                    *)
(***************************************************************************)
Dispatchers == {"d1", "d2"}
NoDispatcher == "undefined"

\* fetch(input, init): what the branch looks at.  hasInit is whether init
\* was passed; dispatcher is init.dispatcher
FetchInputs ==
    [method : {"GET", "POST"}, upgrade : {"websocket", "none"},
     protocol : {"http:", "https:", "file:"}, redirect : {"follow", "manual"},
     hasInit : BOOLEAN, dispatcher : Dispatchers \cup {NoDispatcher}]

\* a call that never passed init has no init.dispatcher
FetchInputOk(input) == ~input.hasInit => input.dispatcher = NoDispatcher

registerAllowUnauthorizedDispatcher_Forgets(set, dispatcher) == set
\* lines 15-17: allowUnauthorizedDispatchers.add(dispatcher)
registerAllowUnauthorizedDispatcher(set, dispatcher) == set \cup {dispatcher}

\* lines 38-41: request.method === "GET" && headers.get("upgrade") === "websocket"
IsUpgrade(input) == input.method = "GET" /\ input.upgrade = "websocket"

\* line 48: url.protocol.replace("http", "ws")
WsProtocol(protocol) == IF protocol = "https:" THEN "wss:" ELSE "ws:"

\* the options object spread into the WebSocket's options
NoOption == [present |-> FALSE, rejectUnauthorized |-> TRUE]
AllowUnauthorized == [present |-> TRUE, rejectUnauthorized |-> FALSE]

rejectUnauthorized_AnyDispatcher(input, trusted) ==
    IF input.hasInit /\ input.dispatcher # NoDispatcher THEN AllowUnauthorized ELSE NoOption

rejectUnauthorized_Always(input, trusted) == AllowUnauthorized

\* lines 62-66: requestInit?.dispatcher !== undefined &&
\* allowUnauthorizedDispatchers.has(requestInit?.dispatcher)
rejectUnauthorized(input, trusted) ==
    IF (input.hasInit /\ input.dispatcher # NoDispatcher) /\ input.dispatcher \in trusted
    THEN AllowUnauthorized
    ELSE NoOption

\* what a fetch() call did: threw the TypeError of line 44, opened a
\* WebSocket (lines 69-73), or went to undici's fetch (line 99)
NoFetch ==
    [did |-> "none", protocol |-> "", dispatcher |-> NoDispatcher, option |-> NoOption,
     followRedirects |-> FALSE, wasRegistered |-> FALSE]
FetchDid(input, trusted, wasRegistered) ==
    IF ~IsUpgrade(input)
    THEN [NoFetch EXCEPT !.did = "baseFetch", !.dispatcher = input.dispatcher,
                         !.wasRegistered = wasRegistered]
    ELSE IF input.protocol \notin {"http:", "https:"}
    THEN [NoFetch EXCEPT !.did = "TypeError", !.dispatcher = input.dispatcher,
                         !.wasRegistered = wasRegistered]
    ELSE [did |-> "WebSocket", protocol |-> WsProtocol(input.protocol),
          dispatcher |-> input.dispatcher,
          option |-> rejectUnauthorized(input, trusted),
          followRedirects |-> (input.redirect = "follow"),
          wasRegistered |-> wasRegistered]

\* the connection a fetch() opened, as the trust decision sees it
Connection(did) ==
    [dispatcher |-> did.dispatcher, option |-> did.option,
     wasRegistered |-> did.wasRegistered]

FetchModuleInit ==
    /\ allowUnauthorizedDispatchers = {}
    /\ registered = {}
    /\ lastFetch = NoFetch
    /\ opened = {}

\* registerAllowUnauthorizedDispatcher(dispatcher)
RegisterAllowUnauthorizedDispatcher ==
    /\ \E d \in Dispatchers :
        /\ allowUnauthorizedDispatchers' =
               registerAllowUnauthorizedDispatcher(allowUnauthorizedDispatchers, d)
        /\ registered' = registered \cup {d}
    /\ UNCHANGED <<nextActionId, actionResults, sameIsolatedNamespaces, options, call,
                   req, wrapper, alarm, moduleVersion, listing, lastFetch, opened>>

\* fetch(input, init), up to the WebSocket's construction or to baseFetch
Fetch ==
    /\ \E input \in FetchInputs :
        /\ FetchInputOk(input)
        /\ LET did == FetchDid(input, allowUnauthorizedDispatchers,
                               input.dispatcher \in registered)
           IN  /\ lastFetch' = did
               /\ opened' = IF did.did = "WebSocket" THEN opened \cup {Connection(did)}
                            ELSE opened
    /\ UNCHANGED <<nextActionId, actionResults, sameIsolatedNamespaces, options, call,
                   req, wrapper, alarm, moduleVersion, listing,
                   allowUnauthorizedDispatchers, registered>>

(***************************************************************************)
(* listDurableObjectIds.                                                   *)
(***************************************************************************)
\* the state of the one listDurableObjectIds call: its argument, the URL it
\* fetched, the key the lookup service read from it, the service's answer and
\* the call's outcome; persisted is what the service has on disk for a group
ListCall(pc, persisted, namespace, url, queried, status, body, outcome, ids) ==
    [pc |-> pc, persisted |-> persisted, namespace |-> namespace, url |-> url,
     queried |-> queried, status |-> status, body |-> body, outcome |-> outcome,
     ids |-> ids]
ListIdle == ListCall("idle", <<>>, NullValue, <<>>, <<>>, 0, <<>>, NoOutcome, <<>>)

\* Object.entries(internalEnv).find((entry) => namespace === entry[1])?.[0]:
\* the bound name, or "" when there is none
BoundName(opts, namespace) ==
    IF opts.defined /\ \E i \in 1..Len(opts.entries) : opts.entries[i].key = namespace.ref
    THEN namespace.ref
    ELSE ""

listUniqueKey_IgnoresOverride(designator) ==
    (IF designator.hasScriptName THEN designator.scriptName ELSE SelfName)
        \o <<"-">> \o designator.className

listUniqueKey_AlwaysSelf(designator) ==
    IF designator.hasKey THEN designator.unsafeUniqueKey
    ELSE SelfName \o <<"-">> \o designator.className

\* lines 292-298: the unique key of a designator
listUniqueKey(designator) ==
    IF designator.hasKey THEN designator.unsafeUniqueKey
    ELSE (IF designator.hasScriptName THEN designator.scriptName ELSE SelfName)
             \o <<"-">> \o designator.className

RECURSIVE encodeURIComponent(_)
\* encodeURIComponent over token strings: a reserved character becomes its
\* percent escape, everything else is kept
encodeURIComponent(str) ==
    IF str = <<>> THEN <<>>
    ELSE (CASE Head(str) = "&" -> <<"%", "26">>
            [] Head(str) = "%" -> <<"%", "25">>
            [] OTHER -> <<Head(str)>>) \o encodeURIComponent(Tail(str))

ListUrl_Unencoded(uniqueKey) ==
    <<"http://placeholder/durable-objects?unique_key=">> \o uniqueKey

\* lines 300-302
ListUrl(uniqueKey) ==
    <<"http://placeholder/durable-objects?unique_key=">> \o encodeURIComponent(uniqueKey)

RECURSIVE QueryValue(_)
\* the lookup service reads the query parameter: up to the next "&" ...
QueryValue(str) ==
    IF str = <<>> \/ Head(str) = "&" THEN <<>>
    ELSE <<Head(str)>> \o QueryValue(Tail(str))

RECURSIVE PercentDecode(_)
\* ... with its percent escapes decoded
PercentDecode(str) ==
    IF str = <<>> THEN <<>>
    ELSE IF Head(str) = "%" /\ Len(str) >= 2
    THEN (CASE str[2] = "26" -> <<"&">>
            [] str[2] = "25" -> <<"%">>
            [] OTHER -> <<"%", str[2]>>) \o PercentDecode(Tail(Tail(str)))
    ELSE <<Head(str)>> \o PercentDecode(Tail(str))

\* the unique_key the lookup service is asked for by a URL
LookupQueryKey(url) == PercentDecode(QueryValue(Tail(url)))

\* the identity strings the service has on disk under a key: those of the
\* bindings whose group has that key
LookupAnswer(opts, persisted, key) ==
    IF \E i \in 1..Len(opts.entries) : NamespaceKey(opts.entries[i].designator) = key
    THEN [i \in 1..Len(persisted) |-> IdString(key, persisted[i])]
    ELSE <<>>

listParse_Reversed(body) ==
    [i \in 1..Len(body) |-> DurableObjectId(body[Len(body) + 1 - i])]

\* lines 309-312: ids.map((id) => namespace.idFromString(id))
listParse(body) == [i \in 1..Len(body) |-> DurableObjectId(body[i])]

\* listDurableObjectIds(namespace), up to its await of the lookup service
ListDurableObjectIds ==
    /\ listing.pc = "idle"
    /\ \E namespace \in {Namespace(options.entries[i].key) : i \in 1..Len(options.entries)}
                        \cup {NullValue, Stub("DurableObject", "a1")} :
        LET boundName == BoundName(options, namespace)
            designator == DesignatorOf(options, boundName)
            url == ListUrl(listUniqueKey(designator))
        IN  IF ~isDurableObjectNamespace(namespace)
            THEN listing' = [listing EXCEPT !.pc = "done", !.namespace = namespace,
                     !.outcome = Outcome("rejected",
                         TypeErr("Failed to execute 'listDurableObjectIds': parameter 1 is not of type 'DurableObjectNamespace'."))]
            ELSE IF boundName = ""
            THEN listing' = [listing EXCEPT !.pc = "done", !.namespace = namespace,
                     !.outcome = Outcome("rejected",
                         AssertionErr("Expected to find bound name for namespace"))]
            ELSE IF designator = NoDesignator
            THEN listing' = [listing EXCEPT !.pc = "done", !.namespace = namespace,
                     !.outcome = Outcome("rejected",
                         AssertionErr("Expected to find designator for namespace"))]
            ELSE listing' = [listing EXCEPT !.pc = "fetching", !.namespace = namespace,
                     !.url = url, !.queried = LookupQueryKey(url)]
    /\ UNCHANGED <<nextActionId, actionResults, sameIsolatedNamespaces, options, call,
                   req, wrapper, alarm, moduleVersion, fetchVars>>

\* lines 306-312: the resumption after the lookup service answered, with the
\* identities on disk or with a failure status
ListResume ==
    /\ listing.pc = "fetching"
    /\ \E status \in {200, 500} :
        LET body == IF status = 200
                    THEN LookupAnswer(options, listing.persisted, listing.queried)
                    ELSE <<>>
        IN  IF status # 200
            THEN listing' = [listing EXCEPT !.pc = "done", !.status = status,
                     !.outcome = Outcome("rejected",
                         AssertionErr("Expected values to be strictly equal"))]
            ELSE IF \E i \in 1..Len(body) :
                        ~IdFromStringAccepts(options, listing.namespace, body[i])
            THEN listing' = [listing EXCEPT !.pc = "done", !.status = status,
                     !.body = body,
                     !.outcome = Outcome("rejected", TypeErr("Invalid Durable Object ID"))]
            ELSE listing' = [listing EXCEPT !.pc = "done", !.status = status,
                     !.body = body, !.outcome = Outcome("resolved", Undefined),
                     !.ids = listParse(body)]
    /\ UNCHANGED <<nextActionId, actionResults, sameIsolatedNamespaces, options, call,
                   req, wrapper, alarm, moduleVersion, fetchVars>>

\* the configurations and disk contents listDurableObjectIds is checked under
ListDesignators(className) ==
    {Designator(className, hasScriptName, IF hasScriptName THEN <<"other">> ELSE <<>>,
                hasKey, IF hasKey THEN key ELSE <<>>) :
        hasScriptName \in BOOLEAN, hasKey \in BOOLEAN,
        key \in {<<"my", "&", "key">>, <<"100", "%">>}}
ListOptions ==
    {[defined |-> TRUE, entries |-> <<Entry("COUNTER", d1), Entry("OTHER", d2)>>] :
        d1 \in ListDesignators(<<"Counter">>), d2 \in ListDesignators(<<"Other">>)}
ListPersisted == {<<>>, <<"a">>, <<"a", "b">>, <<"b", "a">>}

\* the worker starts: the module state of lines 7-9 and 44, no wrapper
\* constructed yet; an actor's durable storage may hold an alarm scheduled
\* in an earlier run
Init ==
    /\ nextActionId = 0
    /\ actionResults = EmptyMap
    /\ sameIsolatedNamespaces = NoCache
    /\ options = MainOptions
    /\ call = [c \in Calls |-> IdleCall]
    /\ req = [r \in Requests |-> NoRequest]
    /\ wrapper = [a \in Actors |-> FreshWrapper]
    /\ \E scheduled \in {NoAlarm, 1} :
           alarm = [a \in Actors |-> IF a \in LocalActors THEN scheduled ELSE NoAlarm]
    /\ moduleVersion = 1
    /\ listing = ListIdle
    /\ FetchModuleInit

\* the dispatch protocol: the driver's calls, run concurrently, and the
\* wrappers that serve them while the main module changes under them
Next ==
    \/ \E c \in Calls : RunInDurableObject(c)
    \/ \E c \in Calls : RunDurableObjectAlarm(c)
    \/ \E c \in Calls : Resume(c)
    \/ \E r \in Calls : EnsureInstance(r)
    \/ \E r \in Calls : Drained(r)
    \/ \E r \in Calls : RunAlarmAfterGet(r)
    \/ \E r \in Calls : RunAlarmAfterDelete(r)

Spec == Init /\ [][Next]_vars

InitList ==
    /\ nextActionId = 0
    /\ actionResults = EmptyMap
    /\ sameIsolatedNamespaces = NoCache
    /\ options \in ListOptions
    /\ call = [c \in Calls |-> IdleCall]
    /\ req = [r \in Requests |-> NoRequest]
    /\ wrapper = [a \in Actors |-> FreshWrapper]
    /\ alarm = [a \in Actors |-> NoAlarm]
    /\ moduleVersion = 1
    /\ \E persisted \in ListPersisted : listing = [ListIdle EXCEPT !.persisted = persisted]
    /\ FetchModuleInit

NextList ==
    \/ ListDurableObjectIds
    \/ ListResume

\* listDurableObjectIds under every configuration of two bindings
SpecList == InitList /\ [][NextList]_vars

\* the lifecycle calls the host forwards, next to one runInDurableObject call
NextHooks ==
    \/ RunInDurableObject(1)
    \/ Resume(1)
    \/ \E r \in Requests : EnsureInstance(r)
    \/ \E r \in Requests : Drained(r)
    \/ \E r \in Forwarded : Forward(r)

SpecHooks == Init /\ [][NextHooks]_vars

\* the wrapper under every request it can be sent: the carrier of one
\* runInDurableObject call, forwarded lifecycle calls, and tagged requests
\* that did not come from the dispatcher
NextWrapper ==
    \/ RunInDurableObject(1)
    \/ Resume(1)
    \/ \E r \in Requests : EnsureInstance(r)
    \/ \E r \in Requests : Drained(r)
    \/ \E r \in Forwarded : Forward(r)
    \/ \E r \in Forwarded : Forge(r)

SpecWrapper == Init /\ [][NextWrapper]_vars

(***************************************************************************)
(* Properties of the dispatch protocol.                                    *)
(***************************************************************************)
\* the carrier request of call c was answered by the wrapper
Served(c) == call[c].pc = "done" /\ call[c].id # -1 /\ req[c].pc = "responded"

\* no binding of this worker (a designator without scriptName) re-derives the
\* stub's identity
NotLocal(stub) ==
    \A i \in 1..Len(options.entries) :
        \/ options.entries[i].designator.hasScriptName
        \/ IdToString(StubId(options, stub)).key
               # NamespaceKey(options.entries[i].designator)

\* C1: a callback that returns a plain (non-response) value v, undefined
\* included, on a stub of this worker: once the wrapper has answered the
\* carrier request, runInDurableObject has resolved to exactly v.
C1_PlainValueResolves ==
    \A c \in Calls :
        /\ (/\ call[c].pc = "done"
            /\ call[c].stub \in LocalStubs
            /\ call[c].callback \in UserCallbacks
            /\ req[c].pc = "responded"
            /\ CallbackOutcome(call[c].callback).kind = "return"
            /\ ~IsResponse(CallbackOutcome(call[c].callback).val))
           => call[c].outcome =
                  Outcome("resolved", CallbackOutcome(call[c].callback).val)
        /\ (Served(c) /\ req[c].produced.kind = "return"
                /\ ~IsResponse(req[c].produced.val))
           => call[c].outcome = Outcome("resolved", req[c].produced.val)

C1_Witness ==
    \E c \in Calls :
        /\ call[c].pc = "done"
        /\ call[c].callback = Fn("retUndef")
        /\ req[c].produced = Outcome("return", Undefined)
        /\ call[c].outcome = Outcome("resolved", Undefined)

\* C2: a callback that throws e inside the actor: runInDurableObject rejects
\* with e itself and does not resolve.
C2_ThrownErrorRejects ==
    \A c \in Calls :
        /\ (/\ call[c].pc = "done"
            /\ call[c].stub \in LocalStubs
            /\ call[c].callback \in UserCallbacks
            /\ req[c].pc = "responded"
            /\ CallbackOutcome(call[c].callback).kind = "throw")
           => call[c].outcome =
                  Outcome("rejected", CallbackOutcome(call[c].callback).val)
        /\ (Served(c) /\ req[c].produced.kind = "throw")
           => call[c].outcome = Outcome("rejected", req[c].produced.val)

C2_Witness ==
    \E c \in Calls :
        /\ call[c].pc = "done"
        /\ call[c].callback = Fn("throwErr")
        /\ req[c].produced = Outcome("throw", Err("boom"))
        /\ call[c].outcome = Outcome("rejected", Err("boom"))

\* C3: a callback that returns a response r: runInDurableObject resolves to
\* the carrier request's response, which is r with its own status and body,
\* not a 204; also when r's status is a failure status.
C3_ResponseIsCarrier ==
    \A c \in Calls :
        (Served(c) /\ req[c].produced.kind = "return" /\ IsResponse(req[c].produced.val))
        => /\ req[c].result.val = req[c].produced.val
           /\ call[c].outcome = Outcome("resolved", req[c].produced.val)

C3_Witness ==
    \E c \in Calls :
        /\ call[c].pc = "done"
        /\ call[c].callback = Fn("resp500")
        /\ call[c].outcome = Outcome("resolved", Resp(500, "down"))

\* C4: runInDurableObject with a stub that no binding of this worker can
\* re-derive rejects with the cross-isolate error whatever the callback, and
\* that call allocates no action id, adds no entry and sends no request.
C4_NotLocalRejected ==
    [][\A c \in Calls :
        (/\ call[c].pc = "idle"
         /\ call'[c].pc # "idle"
         /\ call'[c].stub \in LocalStubs \cup RemoteStubs
         /\ IsFunction(call'[c].callback)
         /\ NotLocal(call'[c].stub))
        => /\ call'[c].pc = "done"
           /\ call'[c].outcome = Outcome("rejected", SameIsolateError)
           /\ call'[c].id = -1
           /\ nextActionId' = nextActionId
           /\ actionResults' = actionResults
           /\ req' = req]_vars

C4_Witness ==
    \E c \in Calls :
        /\ call[c].pc = "done"
        /\ call[c].stub = Stub("DurableObject", "r1")
        /\ call[c].callback = Fn("throwErr")
        /\ call[c].outcome = Outcome("rejected", SameIsolateError)
        /\ req[c] = NoRequest

\* C5: concurrent runInDurableObject calls, on the same or on different
\* stubs: no two calls have the same action id, and each call's carrier runs
\* that call's callback and the call ends with what that run produced.
C5_OwnIdOwnOutcome ==
    /\ \A c1, c2 \in Calls :
           (c1 # c2 /\ call[c1].id # -1 /\ call[c2].id # -1)
           => call[c1].id # call[c2].id
    /\ \A c \in Calls :
           /\ call[c].id # -1
              => /\ req[c].actionId = call[c].id
                 /\ req[c].actor = call[c].stub.ref
           /\ req[c].pc \in {"gotAlarm", "deleted", "responded"}
              => req[c].executed = call[c].callback
           /\ Served(c)
              => call[c].outcome =
                     IF req[c].produced.kind = "throw"
                     THEN Outcome("rejected", req[c].produced.val)
                     ELSE Outcome("resolved", req[c].produced.val)

\* two calls on the same stub overlap: the one that started later has
\* finished with its own value while the earlier one is still awaited
C5_Witness ==
    \E c1, c2 \in Calls :
        /\ call[c1].pc = "awaiting"
        /\ call[c2].pc = "done"
        /\ call[c2].id > call[c1].id
        /\ call[c1].stub = call[c2].stub
        /\ call[c1].callback = Fn("throwErr")
        /\ call[c2].callback = Fn("retStr")
        /\ call[c2].outcome = Outcome("resolved", Str("v"))

\* the alarm run of call c: what runAlarm read, and whether the instance it
\* ran on defines alarm()
AlarmRun(c) == Served(c) /\ call[c].api = "runDurableObjectAlarm"
DefinesAlarm(c) == "alarm" \in InstanceHooks(wrapper[req[c].actor].instance)

\* C6 as stated: no alarm scheduled: false, nothing cleared, the hook not
\* invoked; an alarm scheduled: true, the schedule cleared and the hook
\* invoked exactly once.
C6_AsStated ==
    \A c \in Calls :
        AlarmRun(c)
        => IF req[c].sawAlarm = NoAlarm
           THEN /\ call[c].outcome = Outcome("resolved", Bool(FALSE))
                /\ ~req[c].cleared
                /\ req[c].hooks = 0
           ELSE /\ call[c].outcome = Outcome("resolved", Bool(TRUE))
                /\ req[c].cleared
                /\ req[c].hooks = 1

\* C6 (amended): no alarm scheduled: runDurableObjectAlarm resolves to false,
\* clears nothing and does not invoke the hook.  An alarm scheduled: the
\* schedule is cleared and the hook is invoked exactly once if the instance
\* defines alarm() and not at all otherwise; the call resolves to true unless
\* the hook throws, and then rejects with the hook's error.  The clearing
\* leaves no alarm scheduled, so a run that follows with nothing scheduled
\* since (by the hook or anyone else) reads none and resolves to false.
C6_AlarmRun ==
    /\ [](\A c \in Calls :
            AlarmRun(c)
            => IF req[c].sawAlarm = NoAlarm
               THEN /\ call[c].outcome = Outcome("resolved", Bool(FALSE))
                    /\ ~req[c].cleared
                    /\ req[c].hooks = 0
               ELSE /\ req[c].cleared
                    /\ req[c].hooks = (IF DefinesAlarm(c) THEN 1 ELSE 0)
                    /\ call[c].outcome =
                           IF req[c].produced.kind = "throw"
                           THEN Outcome("rejected", AlarmHookError)
                           ELSE Outcome("resolved", Bool(TRUE)))
    /\ [][\A c \in Calls :
            /\ (req[c].pc = "gotAlarm" /\ req'[c].pc # "gotAlarm")
               => IF req[c].sawAlarm = NoAlarm
                  THEN /\ alarm' = alarm
                       /\ req'[c].pc = "responded"
                       /\ req'[c].produced = Outcome("return", Bool(FALSE))
                  ELSE /\ alarm'[req[c].actor] = NoAlarm
                       /\ req'[c].pc = "deleted"
            /\ (req[c].pc # "gotAlarm" /\ req'[c].pc = "gotAlarm")
               => req'[c].sawAlarm = alarm[req[c].actor]]_vars

\* an alarm scheduled on a Counter actor is run (true, hook once), and the
\* run made afterwards finds none (false)
C6_Witness ==
    \E c1, c2 \in Calls :
        /\ AlarmRun(c1) /\ AlarmRun(c2)
        /\ call[c1].id < call[c2].id
        /\ call[c1].stub = call[c2].stub
        /\ call[c1].outcome = Outcome("resolved", Bool(TRUE))
        /\ req[c1].hooks = 1 /\ req[c1].cleared
        /\ call[c2].outcome = Outcome("resolved", Bool(FALSE))
        /\ req[c2].hooks = 0 /\ ~req[c2].cleared

\* the driver's values that are no stubs
NotAStub(v) == v \notin LocalStubs \cup RemoteStubs

\* C7: a value that is not a stub given to runInDurableObject or to
\* runDurableObjectAlarm, or a callback that is not callable, fails with the
\* type error naming the helper and the parameter; that call leaves the
\* action-id counter, the table and the same-isolate cache as they were and
\* sends no request.
C7_TypeErrorFirst ==
    [][\A c \in Calls :
        (/\ call[c].pc = "idle"
         /\ call'[c].pc # "idle"
         /\ (NotAStub(call'[c].stub) \/ ~IsFunction(call'[c].callback)))
        => /\ call'[c].pc = "done"
           /\ call'[c].outcome =
                  IF call'[c].api = "runDurableObjectAlarm"
                  THEN Outcome("thrown", TypeErr("Failed to execute 'runDurableObjectAlarm': parameter 1 is not of type 'DurableObjectStub'."))
                  ELSE IF NotAStub(call'[c].stub)
                  THEN Outcome("rejected", TypeErr("Failed to execute 'runInDurableObject': parameter 1 is not of type 'DurableObjectStub'."))
                  ELSE Outcome("rejected", TypeErr("Failed to execute 'runInDurableObject': parameter 2 is not of type 'function'."))
           /\ nextActionId' = nextActionId
           /\ actionResults' = actionResults
           /\ sameIsolatedNamespaces' = sameIsolatedNamespaces
           /\ req' = req]_vars

\* both kinds of bad argument have failed and the same-isolate check has
\* still never run
C7_Witness ==
    /\ sameIsolatedNamespaces = NoCache
    /\ nextActionId = 0
    /\ \E c1, c2 \in Calls :
        /\ call[c1].pc = "done" /\ call[c1].stub = BrokenStub
        /\ call[c1].outcome.val.tag = "TypeError"
        /\ call[c2].pc = "done" /\ call[c2].stub \in LocalStubs
        /\ call[c2].callback \in NotCallable
        /\ call[c2].outcome.val.tag = "TypeError"

\* C10: when runInDurableObject reads the entry of its action id, the wrapper
\* has run the callback and replaced it by the outcome (the value, the error
\* thrown, or the UseResponse sentinel); what is read, and what the call ends
\* with, is never the pending callback.
C10_ReadsOutcome ==
    \A c \in Calls :
        call[c].read.kind = "read"
        => /\ req[c].pc = "responded"
           /\ req[c].produced.kind \in {"return", "throw"}
           /\ call[c].read.val =
                  IF req[c].produced.kind = "return" /\ IsResponse(req[c].produced.val)
                  THEN kUseResponse
                  ELSE req[c].produced.val
           /\ call[c].read.val # call[c].callback
           /\ call[c].outcome.val # call[c].callback
           /\ ~MapHas(actionResults, call[c].id)

\* a second call's callback is still pending in the table when the first
\* call reads the sentinel the wrapper stored for it
C10_Witness ==
    \E c1, c2 \in Calls :
        /\ call[c1].read = Outcome("read", kUseResponse)
        /\ call[c2].pc = "awaiting"
        /\ MapHas(actionResults, call[c2].id)
        /\ actionResults[call[c2].id] = call[c2].callback

(***************************************************************************)
(* Properties of listDurableObjectIds (under SpecList).                    *)
(***************************************************************************)
\* C8: listDurableObjectIds asks the lookup service for the designator's
\* explicit unique key when one is set, and otherwise for scriptName (or the
\* worker's own name, "self") "-" className; on a 200 answer it resolves to
\* one parsed identity per returned string, in the answer's order.
C8_ListKeyAndOrder ==
    LET d == DesignatorOf(options, listing.namespace.ref)
    IN  /\ (listing.pc \in {"fetching", "done"} /\ listing.namespace.ctor = "DurableObjectNamespace")
           => /\ d.hasKey => listing.queried = d.unsafeUniqueKey
              /\ (~d.hasKey /\ d.hasScriptName)
                 => listing.queried = d.scriptName \o <<"-">> \o d.className
              /\ (~d.hasKey /\ ~d.hasScriptName)
                 => listing.queried = <<"self", "-">> \o d.className
        /\ (listing.pc = "done" /\ listing.status = 200)
           => /\ listing.outcome.kind = "resolved"
              /\ Len(listing.ids) = Len(listing.body)
              /\ \A i \in 1..Len(listing.body) : IdToString(listing.ids[i]) = listing.body[i]
              /\ listing.body = [i \in 1..Len(listing.persisted) |->
                                    IdString(listing.queried, listing.persisted[i])]

\* the spec's example: class Counter, no scriptName, no key, "b" and "a" on disk
C8_Witness ==
    /\ listing.pc = "done"
    /\ listing.namespace = Namespace("COUNTER")
    /\ DesignatorOf(options, "COUNTER") = Designator(<<"Counter">>, FALSE, <<>>, FALSE, <<>>)
    /\ listing.queried = <<"self", "-", "Counter">>
    /\ listing.ids = << DurableObjectId(IdString(<<"self", "-", "Counter">>, "b")),
                        DurableObjectId(IdString(<<"self", "-", "Counter">>, "a")) >>

(***************************************************************************)
(* Properties of the forwarded lifecycle calls (under SpecHooks).          *)
(***************************************************************************)
\* the wrapper handed forwarded call r to an instance that does not define
\* the call's hook
HookMissing(r) ==
    /\ req[r].pc \in {"responded", "failed"}
    /\ req[r].result.val \notin {NotExportedError, InvalidatedError, ConstructorError}
    /\ req[r].kind \notin InstanceHooks(wrapper[req[r].actor].instance)

\* C9 as stated: a forwarded call without action id whose hook the instance
\* does not define fails with an error and never completes as a no-op.
C9_AsStated ==
    \A r \in Forwarded :
        HookMissing(r) => req[r].pc = "failed" /\ req[r].result.kind = "throw"

\* C9 (amended): a forwarded request whose instance defines no fetch() fails
\* with the error "Handler does not export a fetch() function."; a forwarded
\* alarm, socket message, socket close or socket error whose hook the
\* instance does not define completes without an error, returning undefined
\* and running no user code.
C9_MissingHook ==
    \A r \in Forwarded :
        HookMissing(r)
        => /\ req[r].hooks = 0
           /\ IF req[r].kind = "fetch"
              THEN /\ req[r].pc = "failed"
                   /\ req[r].result =
                          Outcome("throw", Err("Handler does not export a fetch() function."))
              ELSE /\ req[r].pc = "responded"
                   /\ req[r].result = Outcome("return", Undefined)

C9_Witness ==
    \E r1 \in Forwarded :
        /\ HookMissing(r1)
        /\ req[r1].kind = "webSocketMessage"
        /\ req[r1].pc = "responded"

(***************************************************************************)
(* Properties of the actionResults table.                                  *)
(***************************************************************************)
\* the action ids the model's calls can be given
ActionIds == 0..MaxCalls

\* C11: the lifecycle of an entry of actionResults.  A key appears only in
\* the step of runInDurableObject that allocates it, holding that call's
\* callback, and that step is the one that sends the tagged request.  An
\* entry's value changes only in the wrapper's step that ends the tagged
\* request of that id, while the dispatcher still awaits; it held the
\* callback until then (so it is overwritten once), and every such step
\* overwrites it.  A key disappears only in the dispatcher's resumption after
\* the wrapper has answered, which reads the overwritten value.  So the
\* wrapper never deletes and the dispatcher never overwrites.
C11_EntryLifecycle ==
    [][/\ \A k \in ActionIds :
            /\ (~MapHas(actionResults, k) /\ MapHas(actionResults', k))
               => \E c \in Calls :
                    /\ call[c].pc = "idle" /\ call'[c].pc = "awaiting"
                    /\ call'[c].id = k
                    /\ actionResults'[k] = call'[c].callback
                    /\ req[c].pc = "none"
                    /\ req'[c] = TaggedRequest(call'[c].stub.ref, k)
            /\ (/\ MapHas(actionResults, k) /\ MapHas(actionResults', k)
                /\ actionResults'[k] # actionResults[k])
               => \E c \in Calls :
                    /\ call[c].id = k /\ call[c].pc = "awaiting" /\ call' = call
                    /\ actionResults[k] = call[c].callback
                    /\ req[c].pc # "responded" /\ req'[c].pc = "responded"
            /\ (MapHas(actionResults, k) /\ ~MapHas(actionResults', k))
               => \E c \in Calls :
                    /\ call[c].id = k /\ call[c].pc = "awaiting" /\ call'[c].pc = "done"
                    /\ req[c].pc = "responded" /\ req' = req
                    /\ actionResults[k] # call[c].callback
                    /\ call'[c].read = Outcome("read", actionResults[k])
       /\ \A c \in Calls :
            (req[c].tagged /\ req[c].pc # "responded" /\ req'[c].pc = "responded")
            => /\ MapHas(actionResults, req[c].actionId)
               /\ MapHas(actionResults', req[c].actionId)
               /\ actionResults[req[c].actionId] = call[c].callback
               /\ actionResults'[req[c].actionId] # call[c].callback]_vars

\* one entry has been through its whole lifecycle and is gone while another
\* call's entry, overwritten by the wrapper, waits to be read
C11_Witness ==
    \E c1, c2 \in Calls :
        /\ call[c1].pc = "done" /\ call[c1].read.kind = "read"
        /\ ~MapHas(actionResults, call[c1].id)
        /\ call[c2].pc = "awaiting" /\ req[c2].pc = "responded"
        /\ MapHas(actionResults, call[c2].id)
        /\ actionResults[call[c2].id] = Err("boom")

\* C12: a runInDurableObject call that has terminated, resolved or rejected,
\* has no entry left in actionResults under its action id, also when its
\* carrier request failed instead of being acknowledged; so the table is
\* empty whenever no call is in flight.
C12_NoEntryAfterCall ==
    /\ \A c \in Calls :
           (call[c].pc = "done" /\ call[c].id # -1)
           => ~MapHas(actionResults, call[c].id)
    /\ (\A c \in Calls : call[c].pc \in {"idle", "done"}) => actionResults = EmptyMap

\* C13: only runInDurableObject creates keys of actionResults: every key in
\* the table is an action id that a call allocated, below the counter; the
\* wrapper's handling of a tagged request, also of one whose id has no
\* pending callback, adds no key.
C13_OnlyDispatcherCreatesKeys ==
    \A k \in DOMAIN actionResults :
        /\ k < nextActionId
        /\ \E c \in Calls : call[c].id = k

(***************************************************************************)
(* Properties of ensureInstance().                                         *)
(***************************************************************************)
\* the errors ensureInstance() throws
EnsureErrors == {NotExportedError, InvalidatedError, ConstructorError}

\* ensureInstance() has returned an instance to the hook that serves r
HandedInstance(r) ==
    \/ req[r].pc \in {"gotAlarm", "deleted", "responded"}
    \/ req[r].pc = "failed" /\ req[r].result.val \notin EnsureErrors

\* C14 as stated: over a wrapper's lifetime the user constructor runs at
\* most once, however the ensureInstance() calls overlap.
C14_AsStated ==
    \A a \in Actors : wrapper[a].built <= 1

\* C14 (amended): for one wrapper, at most one instance is ever constructed:
\* the constructor runs only while the wrapper has no instance, every run
\* that completes sets the instance, and once set the instance is never
\* constructed again nor replaced, so every call that returns, returns that
\* instance; a constructor that throws leaves the wrapper without an
\* instance and the next ensureInstance() call runs it again.
C14_ConstructedOnce ==
    /\ [](\A a \in Actors :
            /\ wrapper[a].instance.exists => wrapper[a].built >= 1
            /\ \A r \in Requests :
                 (HandedInstance(r) /\ req[r].actor = a) => wrapper[a].instance.exists)
    /\ [][\A a \in Actors :
            /\ wrapper[a].instance.exists
               => /\ wrapper'[a].instance = wrapper[a].instance
                  /\ wrapper'[a].built = wrapper[a].built
            /\ wrapper'[a].built # wrapper[a].built
               => /\ ~wrapper[a].instance.exists
                  /\ wrapper'[a].built = wrapper[a].built + 1
                  /\ \E r \in Requests :
                       /\ req[r].actor = a /\ req[r].pc = "import"
                       /\ \/ req'[r].pc = "drain" /\ wrapper'[a].instance.exists
                          \/ /\ req'[r] = Fail(r, ConstructorError)
                             /\ ~wrapper'[a].instance.exists]_vars

\* two calls that overlapped at the import, one a forwarded socket message,
\* have both been handed the instance of a wrapper that constructed once
C14_Witness ==
    \E r1, r2 \in Requests :
        /\ r1 # r2 /\ req[r1].actor = req[r2].actor
        /\ req[r1].kind = "webSocketMessage"
        /\ req[r2].tagged
        /\ HandedInstance(r1) /\ HandedInstance(r2)
        /\ wrapper[req[r1].actor].built = 1

ExportedNow(r) == ModuleExport(moduleVersion, WrapperClassName(req[r].actor))

\* C16: once a wrapper has recorded a constructor, an ensureInstance() call
\* that finds the module exporting another constructor under the class name
\* ends in the invalidation error: the call is handed no instance, nothing
\* is constructed, the recorded constructor and the instance stay, and no
\* callback and no user hook runs for it (the table and the alarm are left
\* alone); and only such a call ends in that error.
C16_InvalidatedAborts ==
    [][\A r \in Requests :
        (req[r].pc = "import" /\ req'[r].pc # "import")
        => LET a == req[r].actor
               recorded == wrapper[a].instanceConstructor
               found == ModuleExport(moduleVersion', WrapperClassName(a))
               changed == recorded # NoCtor /\ found.isFunction /\ found.ctor # recorded
           IN  /\ changed
                  => /\ req'[r] = Fail(r, InvalidatedError)
                     /\ req'[r].executed = Undefined /\ req'[r].hooks = 0
                     /\ wrapper' = wrapper
                     /\ actionResults' = actionResults
                     /\ alarm' = alarm
               /\ req'[r].result.val = InvalidatedError => changed]_vars

\* the second call on a Counter actor found the module re-evaluated and was
\* aborted; the instance the first call constructed is still the wrapper's
C16_Witness ==
    \E c1, c2 \in Calls :
        /\ c1 # c2 /\ req[c1].actor = "a1" /\ req[c2].actor = "a1"
        /\ HandedInstance(c1)
        /\ req[c2].pc = "failed" /\ req[c2].result.val = InvalidatedError
        /\ wrapper["a1"].instance = [exists |-> TRUE, ctor |-> ModuleExport(1, <<"Counter">>).ctor]
        /\ wrapper["a1"].built = 1
        /\ moduleVersion = 2

\* C17: the wrapper's answer to a tagged request matches the entry it wrote
\* in the same step: its own 204 exactly when the entry is the value the
\* callback returned, not a response; its own 500 exactly when the entry is
\* what the callback threw; the response the callback returned, whatever its
\* status, exactly when the entry is the UseResponse sentinel.
C17_AckMatchesEntry ==
    [][\A c \in Calls :
        (req[c].tagged /\ req[c].pc # "responded" /\ req'[c].pc = "responded")
        => LET entry == MapGet(actionResults', req[c].actionId)
               response == req'[c].result.val
               produced == req'[c].produced
               returnedResponse == produced.kind = "return" /\ IsResponse(produced.val)
           IN  /\ MapHas(actionResults', req[c].actionId)
               /\ req'[c].result.kind = "return"
               /\ response = Resp(204, "")
                  <=> (produced.kind = "return" /\ ~returnedResponse /\ entry = produced.val)
               /\ response = Resp(500, "")
                  <=> (produced.kind = "throw" /\ entry = produced.val)
               /\ (returnedResponse /\ response = produced.val)
                  <=> entry = kUseResponse]_vars

\* the three kinds of answer: a response with a failure status returned by
\* the callback was passed through under the sentinel
C17_Witness ==
    \E c \in Calls :
        /\ req[c].pc = "responded" /\ call[c].pc = "awaiting"
        /\ req[c].result.val = Resp(500, "down")
        /\ actionResults[call[c].id] = kUseResponse

\* C18: a request tagged with an action id never reaches the instance's
\* fetch() (nor another hook), whether its callback returns, throws or is
\* missing; a request without the tag is answered by the instance's fetch(),
\* runs no callback, and leaves the table and the counter as they were.
C18_TagDecidesRoute ==
    /\ [](\A r \in Requests :
            /\ (req[r].tagged /\ req[r].pc \in {"responded", "failed"})
               => /\ req[r].hooks = 0
                  /\ req[r].result.val # UserFetchResponse
            /\ (~req[r].tagged /\ req[r].kind = "fetch" /\ HandedInstance(r))
               => /\ req[r].executed = Undefined
                  /\ req[r].produced = NoOutcome
                  /\ "fetch" \in InstanceHooks(wrapper[req[r].actor].instance)
                     => /\ req[r].hooks = 1
                        /\ req[r].result = Outcome("return", UserFetchResponse))
    /\ [][\A r \in Requests :
            (req[r].pc = "import" /\ req[r].kind = "fetch" /\ ~req[r].tagged
                /\ req'[r] # req[r])
            => /\ actionResults' = actionResults
               /\ nextActionId' = nextActionId]_vars

\* a tagged request with no pending callback was answered 500 on an actor
\* whose instance defines fetch(), and fetch() did not run
C18_Witness ==
    \E r \in Forwarded :
        /\ req[r].tagged /\ req[r].actor = "a1"
        /\ req[r].pc = "responded"
        /\ req[r].executed = Undefined
        /\ req[r].result.val = Resp(500, "")
        /\ req[r].hooks = 0

\* C19: with an alarm pending, runAlarm clears it before it invokes the
\* instance's alarm() and invokes alarm() only if the instance defines it.
\* The step that runs the hook never clears: what the hook schedules stays
\* scheduled.  Without alarm() the call still resolves to true with the
\* schedule cleared; if alarm() throws the call rejects with that error and
\* the alarm that was read stays cleared.
C19_ClearThenHook ==
    /\ [](\A c \in Calls :
            req[c].executed = runAlarm
            => /\ req[c].hooks > 0 => (req[c].cleared /\ DefinesAlarm(c))
               /\ (AlarmRun(c) /\ req[c].cleared /\ ~DefinesAlarm(c))
                  => (req[c].hooks = 0 /\ call[c].outcome = Outcome("resolved", Bool(TRUE)))
               /\ (AlarmRun(c) /\ req[c].produced.kind = "throw")
                  => (req[c].cleared /\ call[c].outcome = Outcome("rejected", AlarmHookError)))
    /\ [][\A c \in Calls :
            LET a == req[c].actor
            IN  /\ (req[c].pc = "gotAlarm" /\ req'[c].pc = "deleted")
                   => (req[c].hooks = 0 /\ req'[c].hooks = 0 /\ alarm'[a] = NoAlarm)
                /\ (req[c].pc = "deleted" /\ req'[c].pc # "deleted")
                   => /\ alarm'[a] # alarm[a] => (alarm'[a] # NoAlarm /\ req'[c].hooks = 1)
                      /\ req'[c].produced.kind = "throw" => alarm'[a] = alarm[a]
                      /\ req'[c].hooks = (IF DefinesAlarm(c) THEN 1 ELSE 0)]_vars

\* the alarm hook rescheduled: the run made after it finds an alarm again
C19_Witness ==
    \E c1, c2 \in Calls :
        /\ AlarmRun(c1) /\ AlarmRun(c2)
        /\ call[c1].id < call[c2].id
        /\ call[c1].stub = call[c2].stub
        /\ req[c1].hooks = 1 /\ req[c2].hooks = 1
        /\ call[c1].outcome = Outcome("resolved", Bool(TRUE))
        /\ call[c2].outcome = Outcome("resolved", Bool(TRUE))
        /\ alarm[req[c1].actor] = NoAlarm

(***************************************************************************)
(* miniflare's fetch under every order of registrations and fetches.       *)
(***************************************************************************)
InitFetch ==
    /\ nextActionId = 0
    /\ actionResults = EmptyMap
    /\ sameIsolatedNamespaces = NoCache
    /\ options = MainOptions
    /\ call = [c \in Calls |-> IdleCall]
    /\ req = [r \in Requests |-> NoRequest]
    /\ wrapper = [a \in Actors |-> FreshWrapper]
    /\ alarm = [a \in Actors |-> NoAlarm]
    /\ moduleVersion = 1
    /\ listing = ListIdle
    /\ FetchModuleInit

NextFetch ==
    \/ RegisterAllowUnauthorizedDispatcher
    \/ Fetch

SpecFetch == InitFetch /\ [][NextFetch]_vars

\* C20: a WebSocket that fetch() opens gets rejectUnauthorized: false only
\* if the call's dispatcher had been given to
\* registerAllowUnauthorizedDispatcher before; a call without a dispatcher
\* or with one never registered sets no such option; a call that opens no
\* WebSocket sets none either; and the trusted set is at all times exactly
\* the set of registered dispatchers.
C20_TrustOnlyRegistered ==
    /\ allowUnauthorizedDispatchers = registered
    /\ \A w \in opened :
        /\ w.option \in {NoOption, AllowUnauthorized}
        /\ w.option = AllowUnauthorized
           <=> (w.dispatcher # NoDispatcher /\ w.wasRegistered)
        /\ w.option = AllowUnauthorized => w.dispatcher \in registered
    /\ lastFetch.did # "WebSocket" => lastFetch.option = NoOption

\* with d1 registered and d2 not, upgrades through both and through no
\* dispatcher were opened: only d1's skips verification
C20_Witness ==
    /\ registered = {"d1"}
    /\ [dispatcher |-> "d1", option |-> AllowUnauthorized, wasRegistered |-> TRUE] \in opened
    /\ [dispatcher |-> "d2", option |-> NoOption, wasRegistered |-> FALSE] \in opened
    /\ [dispatcher |-> NoDispatcher, option |-> NoOption, wasRegistered |-> FALSE] \in opened
    /\ lastFetch.did = "WebSocket" /\ lastFetch.protocol = "wss:"

=============================================================================
